---- MODULE Spec2Model ----
(***************************************************************************)
(* The PubSub demo file server (demo/serve.py): main() binds the port and  *)
(* serves forever; PubSubDemoHandler.do_GET logs the request, logs and     *)
(* decodes the event carried in the query string, and delegates to the     *)
(* static file handler it inherits from.                                   *)
(*                                                                         *)
(* Text is modelled by TLC strings (Len, SubSeq and \o act on them as on   *)
(* sequences of characters).  A printed line is the text print() is given, *)
(* without the pictograph that starts it in the source: the module's       *)
(* strings are ASCII.                                                      *)
(***************************************************************************)
EXTENDS Integers, Sequences, FiniteSets, TLC

VARIABLES
    phase,      \* main()'s position: "init", "serving", "stopped", "failed"
    cwd,        \* the process's working directory
    console,    \* what main() itself has printed, in order
    exitStatus, \* the process's exit status, NoExit while it runs
    handled,    \* the number of requests dispatched to a handler so far
    signals,    \* the number of interrupt signals delivered to the process
    cur,        \* the latest request's handling (a fresh handler object)
    prev        \* the handling of the request before it

vars == <<phase, cwd, console, exitStatus, handled, signals, cur, prev>>

---------------------------------------------------------------------------
(* Python's string operations *)

Min(a, b) == IF a < b THEN a ELSE b

\* The value of Body(v) with v bound to the value of e: an assignment
\* v = e followed by the code that uses v.  (A LET definition is an
\* expression, evaluated at each use; a bound variable holds its value.)
Bind(e, Body(_)) == CHOOSE r \in {Body(v) : v \in {e}} : TRUE

CharAt(s, i) == SubSeq(s, i, i)

\* s[:n]
Prefix(s, n) == SubSeq(s, 1, Min(n, Len(s)))

\* s[i:], i counted from 1
Suffix(s, i) == SubSeq(s, i, Len(s))

\* s.find(c, from) counted from 1: the first place >= from that holds c, 0 if none
FindFrom(s, c, from) ==
    IF \E i \in from..Len(s) : CharAt(s, i) = c
    THEN CHOOSE i \in from..Len(s) :
            CharAt(s, i) = c /\ \A j \in from..(i - 1) : CharAt(s, j) # c
    ELSE 0

Find(s, c) == FindFrom(s, c, 1)

\* s.rfind(c) counted from 1: the last place that holds c, 0 if none
RFind(s, c) ==
    IF \E i \in 1..Len(s) : CharAt(s, i) = c
    THEN CHOOSE i \in 1..Len(s) :
            CharAt(s, i) = c /\ \A j \in (i + 1)..Len(s) : CharAt(s, j) # c
    ELSE 0

\* c * n (by halves, as the recursions over a text below: their depth is
\* the logarithm of its length)
RECURSIVE Repeat(_, _)
Repeat(c, n) ==
    IF n <= 0 THEN ""
    ELSE LET half == Repeat(c, n \div 2)
         IN  half \o half \o (IF n % 2 = 1 THEN c ELSE "")

\* s.replace(a, b) for characters a and b
RECURSIVE ReplaceChar(_, _, _)
ReplaceChar(s, a, b) ==
    IF Find(s, a) = 0 THEN s
    ELSE IF Len(s) = 1 THEN b
    ELSE ReplaceChar(SubSeq(s, 1, Len(s) \div 2), a, b)
         \o ReplaceChar(Suffix(s, Len(s) \div 2 + 1), a, b)

Digits == "0123456789"

\* str(n) of an integer
RECURSIVE NatToStr(_)
NatToStr(n) ==
    IF n < 10 THEN CharAt(Digits, n + 1)
    ELSE NatToStr(n \div 10) \o CharAt(Digits, (n % 10) + 1)

IntToStr(n) == IF n < 0 THEN "-" \o NatToStr(0 - n) ELSE NatToStr(n)

\* The printable ASCII characters in code order, code 32 to 95 and code 97 to
\* 126 (a string of the module cannot hold the grave accent, code 96)
AsciiLow ==
    " !\"#$%&'()*+,-./0123456789:;<=>?@ABCDEFGHIJKLMNOPQRSTUVWXYZ[\\]^_"

AsciiHigh == "abcdefghijklmnopqrstuvwxyz{|}~"

\* ord(c) of a printable ASCII character
Ord(c) == IF Find(AsciiLow, c) > 0 THEN Find(AsciiLow, c) + 31 ELSE Find(AsciiHigh, c) + 96

IsPrintable(b) == (b >= 32 /\ b <= 95) \/ (b >= 97 /\ b <= 126)

\* chr(b) of a printable ASCII code
Chr(b) == IF b <= 95 THEN CharAt(AsciiLow, b - 31) ELSE CharAt(AsciiHigh, b - 96)

HexDigits == "0123456789abcdef"
HexUpper == "0123456789ABCDEF"

IsHex(c) == Find(HexDigits, c) > 0 \/ Find(HexUpper, c) > 0

HexVal(c) == IF Find(HexDigits, c) > 0 THEN Find(HexDigits, c) - 1 ELSE Find(HexUpper, c) - 1

\* '%02x' % b
Hex2(b) == CharAt(HexDigits, (b \div 16) + 1) \o CharAt(HexDigits, (b % 16) + 1)

---------------------------------------------------------------------------
(* Python values: a type name and a payload.  A list's payload is the       *)
(* sequence of its items, a dict's the sequence of its <<key, value>> pairs *)
(* in insertion order, each key once.                                      *)

PyStr(s) == [t |-> "str", v |-> s]
PyInt(n) == [t |-> "int", v |-> n]
\* A float is kept as the text that wrote it
PyFloat(text) == [t |-> "float", v |-> text]
PyBool(b) == [t |-> "bool", v |-> b]
PyNone == [t |-> "NoneType", v |-> 0]
PyList(items) == [t |-> "list", v |-> items]
PyDict(pairs) == [t |-> "dict", v |-> pairs]

\* A local variable that no statement has assigned
Unset == [t |-> "unset", v |-> 0]

\* bool(x), for the values the handler tests
Truthy(x) ==
    CASE x.t = "str" -> x.v # ""
      [] x.t = "NoneType" -> FALSE
      [] x.t = "int" -> x.v # 0
      [] x.t = "bool" -> x.v
      [] OTHER -> x.v # <<>>

\* What a call gives: its value, or the exception it raises
Return(v) == [ok |-> TRUE, val |-> v, exc |-> "", msg |-> ""]
Raise(e, m) == [ok |-> FALSE, val |-> PyNone, exc |-> e, msg |-> m]

---------------------------------------------------------------------------
(* urllib.parse, for the request targets an HTTP client sends: a path that  *)
(* starts with one "/", no scheme and no network location.                 *)

\* urllib.parse._splitparams
_splitparams(url) ==
    LET slash == RFind(url, "/")
        i == IF slash > 0 THEN FindFrom(url, ";", slash) ELSE Find(url, ";")
    IN  IF i = 0 THEN <<url, "">>
        ELSE <<SubSeq(url, 1, i - 1), Suffix(url, i + 1)>>

\* urllib.parse.urlparse: the fragment is split off first, then the query,
\* then the parameters of the last path segment
urlparse(url) ==
    LET h == Find(url, "#")
        u1 == IF h = 0 THEN url ELSE SubSeq(url, 1, h - 1)
        fragment == IF h = 0 THEN "" ELSE Suffix(url, h + 1)
        q == Find(u1, "?")
        u2 == IF q = 0 THEN u1 ELSE SubSeq(u1, 1, q - 1)
        query == IF q = 0 THEN "" ELSE Suffix(u1, q + 1)
        sp == IF Find(u2, ";") > 0 THEN _splitparams(u2) ELSE <<u2, "">>
    IN  [path |-> sp[1], params |-> sp[2], query |-> query, fragment |-> fragment]

\* urllib.parse.unquote: %XX becomes the character of that code.  A code
\* outside the printable ASCII characters is rendered "?".
RECURSIVE unquote(_)
unquote(s) ==
    LET p == Find(s, "%")
        b == 16 * HexVal(CharAt(s, p + 1)) + HexVal(CharAt(s, p + 2))
    IN  IF p = 0 THEN s
        ELSE IF p + 2 <= Len(s) /\ IsHex(CharAt(s, p + 1)) /\ IsHex(CharAt(s, p + 2))
             THEN SubSeq(s, 1, p - 1) \o (IF IsPrintable(b) THEN Chr(b) ELSE "?")
                  \o unquote(Suffix(s, p + 3))
             ELSE SubSeq(s, 1, p) \o unquote(Suffix(s, p + 1))

\* urllib.parse.parse_qsl with its defaults (separator "&", blank values
\* dropped, no strict parsing): the <<name, value>> pairs in order
RECURSIVE parse_qsl(_)
parse_qsl(qs) ==
    IF qs = "" THEN <<>>
    ELSE LET i == Find(qs, "&")
             name_value == IF i = 0 THEN qs ELSE SubSeq(qs, 1, i - 1)
             rest == IF i = 0 THEN "" ELSE Suffix(qs, i + 1)
             e == Find(name_value, "=")
             name == SubSeq(name_value, 1, e - 1)
             value == Suffix(name_value, e + 1)
         IN  IF name_value = "" \/ e = 0 \/ value = ""
             THEN parse_qsl(rest)
             ELSE <<<<unquote(ReplaceChar(name, "+", " ")),
                      unquote(ReplaceChar(value, "+", " "))>>>> \o parse_qsl(rest)

\* urllib.parse.parse_qs: each name's values, in the order they came
parse_qs(qs) ==
    LET ValuesOf(pairs, k) ==
            LET IsK(p) == p[1] = k
            IN  Bind(SelectSeq(pairs, IsK), LAMBDA sel : [i \in 1..Len(sel) |-> sel[i][2]])
    IN  Bind(parse_qsl(qs),
             LAMBDA pairs : [k \in {pairs[i][1] : i \in DOMAIN pairs} |-> ValuesOf(pairs, k)])

---------------------------------------------------------------------------
(* base64.urlsafe_b64decode.  Bytes are numbers 0..255.                    *)

B64Alphabet == "ABCDEFGHIJKLMNOPQRSTUVWXYZabcdefghijklmnopqrstuvwxyz0123456789+/"

\* binascii's table_a2b_base64: a character's six bits, -1 for a character
\* that is not of the alphabet
B64Val(c) == Find(B64Alphabet, c) - 1

\* binascii.a2b_base64's loop body for character c.  st holds quad_pos, the
\* place in the quad; leftchar, the bits carried; pads, the pads seen since the
\* last data character; out, the bytes so far; done, set by the pad that
\* completes a quad and ends the data.  A character outside the alphabet is
\* skipped (the decoding is not strict).
a2b_char(st, c) ==
    LET this_ch == B64Val(c)
    IN  IF st.done THEN st
        ELSE IF c = "="
             THEN IF st.quad_pos >= 2 /\ st.quad_pos + st.pads + 1 >= 4
                  THEN [st EXCEPT !.done = TRUE]
                  ELSE IF st.quad_pos >= 2 THEN [st EXCEPT !.pads = @ + 1] ELSE st
        ELSE IF this_ch < 0 THEN st
        ELSE CASE st.quad_pos = 0 ->
                    [st EXCEPT !.quad_pos = 1, !.leftchar = this_ch, !.pads = 0]
               [] st.quad_pos = 1 ->
                    [st EXCEPT !.quad_pos = 2, !.leftchar = this_ch % 16, !.pads = 0,
                               !.out = Append(@, st.leftchar * 4 + this_ch \div 16)]
               [] st.quad_pos = 2 ->
                    [st EXCEPT !.quad_pos = 3, !.leftchar = this_ch % 4, !.pads = 0,
                               !.out = Append(@, st.leftchar * 16 + this_ch \div 4)]
               [] OTHER ->
                    [st EXCEPT !.quad_pos = 0, !.leftchar = 0, !.pads = 0,
                               !.out = Append(@, st.leftchar * 64 + this_ch)]

\* The loop over the characters lo..hi of s, in order; it ends at the pad
\* that sets done
RECURSIVE a2b_loop(_, _, _, _)
a2b_loop(s, lo, hi, st) ==
    IF lo > hi THEN st
    ELSE IF lo = hi THEN a2b_char(st, CharAt(s, lo))
    ELSE Bind(a2b_loop(s, lo, (lo + hi) \div 2, st),
              LAMBDA left : IF left.done THEN left
                            ELSE a2b_loop(s, (lo + hi) \div 2 + 1, hi, left))

\* binascii.a2b_base64(s): the bytes, or the error of a quad left open
a2b_base64(s) ==
    Bind(a2b_loop(s, 1, Len(s),
                  [quad_pos |-> 0, leftchar |-> 0, pads |-> 0, out |-> <<>>,
                   done |-> FALSE]),
         LAMBDA st :
            IF st.done \/ st.quad_pos = 0 THEN Return(st.out)
            ELSE IF st.quad_pos = 1
                 THEN Raise("binascii.Error",
                            "Invalid base64-encoded string: number of data characters ("
                            \o IntToStr((Len(st.out) \div 3) * 4 + 1)
                            \o ") cannot be 1 more than a multiple of 4")
                 ELSE Raise("binascii.Error", "Incorrect padding"))

\* base64.urlsafe_b64decode: "-" and "_" stand for "+" and "/"
urlsafe_b64decode(s) ==
    Bind(ReplaceChar(ReplaceChar(s, "-", "+"), "_", "/"), LAMBDA t : a2b_base64(t))

---------------------------------------------------------------------------
(* bytes.decode('utf-8').  A code point outside the printable ASCII         *)
(* characters is rendered "?": one character, as in Python's count.        *)

IsCont(b) == b >= 128 /\ b <= 191

\* The number of bytes the sequence a lead byte starts, 0 for no lead byte
Utf8Width(b) ==
    CASE b < 128 -> 1
      [] b >= 194 /\ b <= 223 -> 2
      [] b >= 224 /\ b <= 239 -> 3
      [] b >= 240 /\ b <= 244 -> 4
      [] OTHER -> 0

\* Whether b may follow lead byte l as its second byte
Utf8Second(l, b) ==
    CASE l = 224 -> b >= 160 /\ b <= 191
      [] l = 237 -> b >= 128 /\ b <= 159
      [] l = 240 -> b >= 144 /\ b <= 191
      [] l = 244 -> b >= 128 /\ b <= 143
      [] OTHER -> IsCont(b)

\* UnicodeDecodeError's text; start and end are counted from 0, end exclusive
Utf8Error(bytes, start, end, reason) ==
    Raise("UnicodeDecodeError",
          IF end = start + 1
          THEN "'utf-8' codec can't decode byte 0x" \o Hex2(bytes[start + 1])
               \o " in position " \o IntToStr(start) \o ": " \o reason
          ELSE "'utf-8' codec can't decode bytes in position " \o IntToStr(start)
               \o "-" \o IntToStr(end - 1) \o ": " \o reason)

\* The number of bytes after place i (counted from 1) that continue its
\* sequence properly, up to the n - 1 the lead byte asks for
RECURSIVE Utf8Good(_, _, _, _)
Utf8Good(bytes, i, k, n) ==
    IF k >= n \/ i + k > Len(bytes) THEN k - 1
    ELSE IF (IF k = 1 THEN Utf8Second(bytes[i], bytes[i + k]) ELSE IsCont(bytes[i + k]))
         THEN Utf8Good(bytes, i, k + 1, n)
         ELSE k - 1

\* The characters of the ASCII bytes at lo..hi
RECURSIVE AsciiRun(_, _, _)
AsciiRun(bytes, lo, hi) ==
    IF lo > hi THEN ""
    ELSE IF lo = hi THEN (IF IsPrintable(bytes[lo]) THEN Chr(bytes[lo]) ELSE "?")
    ELSE AsciiRun(bytes, lo, (lo + hi) \div 2) \o AsciiRun(bytes, (lo + hi) \div 2 + 1, hi)

\* The decoding from place i on: the run of ASCII bytes there, then the
\* sequence of the first byte that is not ASCII
RECURSIVE utf8_decode(_, _, _)
utf8_decode(bytes, i, out) ==
    LET high == {k \in i..Len(bytes) : bytes[k] >= 128}
        first == IF high = {} THEN Len(bytes) + 1
                 ELSE CHOOSE k \in high : \A m \in high : k <= m
        From(j, run) ==
            LET n == Utf8Width(bytes[j])
                good == Utf8Good(bytes, j, 1, n)
            IN  IF j > Len(bytes) THEN Return(run)
                ELSE IF n = 0 THEN Utf8Error(bytes, j - 1, j, "invalid start byte")
                ELSE IF good = n - 1 THEN utf8_decode(bytes, j + n, run \o "?")
                ELSE IF j + good + 1 > Len(bytes)
                     THEN Utf8Error(bytes, j - 1, Len(bytes), "unexpected end of data")
                     ELSE Utf8Error(bytes, j - 1, j + good, "invalid continuation byte")
    IN  Bind(first, LAMBDA j : Bind(out \o AsciiRun(bytes, i, j - 1), LAMBDA run : From(j, run)))

\* decoded_bytes.decode('utf-8')
decode_utf8(bytes) == utf8_decode(bytes, 1, "")

---------------------------------------------------------------------------
(* json.loads.  Places in the text are counted from 0, as the decoder      *)
(* counts them.  The text is one line, and its only whitespace is " ".     *)

\* s[idx:idx+1]
At(s, idx) == IF idx >= 0 /\ idx < Len(s) THEN CharAt(s, idx + 1) ELSE ""

\* s[idx:idx+n]
Sub(s, idx, n) == SubSeq(s, idx + 1, Min(idx + n, Len(s)))

IsDigit(c) == c # "" /\ Find(Digits, c) > 0

\* The decoder's WHITESPACE.match(s, idx).end()
RECURSIVE SkipWs(_, _)
SkipWs(s, idx) == IF At(s, idx) = " " THEN SkipWs(s, idx + 1) ELSE idx

\* The first place >= idx that holds no digit
RECURSIVE DigitsEnd(_, _)
DigitsEnd(s, idx) == IF IsDigit(At(s, idx)) THEN DigitsEnd(s, idx + 1) ELSE idx

\* int(text) of a run of digits
RECURSIVE StrToNat(_)
StrToNat(text) ==
    IF text = "" THEN 0
    ELSE 10 * StrToNat(SubSeq(text, 1, Len(text) - 1))
         + (Find(Digits, CharAt(text, Len(text))) - 1)

\* int(text, 16) of four hex digits
Hex4(text) ==
    4096 * HexVal(CharAt(text, 1)) + 256 * HexVal(CharAt(text, 2))
    + 16 * HexVal(CharAt(text, 3)) + HexVal(CharAt(text, 4))

IsHex4(text) == Len(text) = 4 /\ \A i \in 1..4 : IsHex(CharAt(text, i))

\* A scan's result: the value and the place after it, or the error and its place
JOk(v, end) == [ok |-> TRUE, val |-> v, end |-> end, msg |-> ""]
JErr(msg, pos) == [ok |-> FALSE, val |-> PyNone, end |-> pos, msg |-> msg]

\* dict[key] = value: a key already there keeps its place
DictSet(pairs, key, value) ==
    IF \E i \in DOMAIN pairs : pairs[i][1] = key
    THEN [i \in DOMAIN pairs |-> IF pairs[i][1] = key THEN <<key, value>> ELSE pairs[i]]
    ELSE Append(pairs, <<key, value>>)

\* json.decoder.scanstring: begin is the place of the opening quote, end the
\* place read next, acc the characters so far
RECURSIVE scanstring(_, _, _, _)
scanstring(s, begin, end, acc) ==
    LET q == FindFrom(s, "\"", end + 1)
        b == FindFrom(s, "\\", end + 1)
        stop == IF q = 0 THEN b ELSE IF b = 0 THEN q ELSE Min(q, b)
        chunk == SubSeq(s, end + 1, stop - 1)
        esc == At(s, stop)
        u1 == Sub(s, stop + 1, 4)
        u2 == Sub(s, stop + 7, 4)
        paired == /\ IsHex4(u1) /\ Hex4(u1) >= 55296 /\ Hex4(u1) <= 56319
                  /\ Sub(s, stop + 5, 2) = "\\u"
                  /\ IsHex4(u2) /\ Hex4(u2) >= 56320 /\ Hex4(u2) <= 57343
    IN  IF stop = 0 THEN JErr("Unterminated string starting at", begin)
        ELSE IF stop = q THEN JOk(PyStr(acc \o chunk), stop)
        ELSE IF esc = "" THEN JErr("Unterminated string starting at", begin)
        ELSE IF esc = "u"
             THEN IF ~IsHex4(u1) THEN JErr("Invalid \\uXXXX escape", stop)
                  ELSE IF paired THEN scanstring(s, begin, stop + 11, acc \o chunk \o "?")
                  ELSE scanstring(s, begin, stop + 5,
                                  acc \o chunk
                                  \o (IF IsPrintable(Hex4(u1)) THEN Chr(Hex4(u1)) ELSE "?"))
        ELSE IF esc \in {"\"", "\\", "/"}
             THEN scanstring(s, begin, stop + 1, acc \o chunk \o esc)
        ELSE IF esc \in {"b", "f", "n", "r", "t"}
             THEN scanstring(s, begin, stop + 1, acc \o chunk \o "?")
        ELSE JErr("Invalid \\escape", stop - 1)

\* The scanner's number: -?(0|[1-9][0-9]*) with an optional fraction and
\* exponent, which make it a float
match_number(s, idx) ==
    LET i0 == IF At(s, idx) = "-" THEN idx + 1 ELSE idx
        i1 == IF At(s, i0) = "0" THEN i0 + 1 ELSE DigitsEnd(s, i0)
        i2 == IF At(s, i1) = "." /\ IsDigit(At(s, i1 + 1)) THEN DigitsEnd(s, i1 + 1) ELSE i1
        e0 == IF At(s, i2 + 1) \in {"+", "-"} THEN i2 + 2 ELSE i2 + 1
        i3 == IF At(s, i2) \in {"e", "E"} /\ IsDigit(At(s, e0)) THEN DigitsEnd(s, e0) ELSE i2
    IN  IF i1 = i0 THEN JErr("Expecting value", idx)
        ELSE IF i3 > i1 THEN JOk(PyFloat(Sub(s, idx, i3 - idx)), i3)
        ELSE JOk(PyInt((IF i0 > idx THEN -1 ELSE 1) * StrToNat(Sub(s, i0, i1 - i0))), i1)

RECURSIVE scan_once(_, _)
RECURSIVE JSONObject(_, _, _)
RECURSIVE JSONArray(_, _, _)

\* json.scanner's scan_once: the value that starts at idx
scan_once(s, idx) ==
    LET c == At(s, idx)
        e == SkipWs(s, idx + 1)
    IN  CASE c = "\"" -> scanstring(s, idx, idx + 1, "")
          [] c = "{" ->
                IF At(s, e) = "}" THEN JOk(PyDict(<<>>), e + 1)
                ELSE IF At(s, e) # "\""
                     THEN JErr("Expecting property name enclosed in double quotes", e)
                     ELSE JSONObject(s, e, <<>>)
          [] c = "[" ->
                IF At(s, e) = "]" THEN JOk(PyList(<<>>), e + 1)
                ELSE JSONArray(s, e, <<>>)
          [] c = "n" /\ Sub(s, idx, 4) = "null" -> JOk(PyNone, idx + 4)
          [] c = "t" /\ Sub(s, idx, 4) = "true" -> JOk(PyBool(TRUE), idx + 4)
          [] c = "f" /\ Sub(s, idx, 5) = "false" -> JOk(PyBool(FALSE), idx + 5)
          [] c = "N" /\ Sub(s, idx, 3) = "NaN" -> JOk(PyFloat("nan"), idx + 3)
          [] c = "I" /\ Sub(s, idx, 8) = "Infinity" -> JOk(PyFloat("inf"), idx + 8)
          [] c = "-" /\ Sub(s, idx, 9) = "-Infinity" -> JOk(PyFloat("-inf"), idx + 9)
          [] OTHER -> match_number(s, idx)

\* json.decoder.JSONObject from a member on: q is the place of the quote that
\* opens the member's name, pairs the members so far
JSONObject(s, q, pairs) ==
    LET AfterValue(k, v) ==
            LET e4 == SkipWs(s, v.end)
                e5 == SkipWs(s, e4 + 1)
            IN  Bind(DictSet(pairs, k.val.v, v.val),
                     LAMBDA members :
                        IF At(s, e4) = "}" THEN JOk(PyDict(members), e4 + 1)
                        ELSE IF At(s, e4) # "," THEN JErr("Expecting ',' delimiter", e4)
                        ELSE IF At(s, e5) # "\""
                             THEN JErr("Expecting property name enclosed in double quotes", e5)
                        ELSE JSONObject(s, e5, members))
        AfterName(k) ==
            LET e2 == SkipWs(s, k.end)
                e3 == SkipWs(s, e2 + 1)
            IN  IF ~k.ok THEN k
                ELSE IF At(s, e2) # ":" THEN JErr("Expecting ':' delimiter", e2)
                ELSE Bind(scan_once(s, e3),
                          LAMBDA v : IF ~v.ok THEN v ELSE AfterValue(k, v))
    IN  Bind(scanstring(s, q, q + 1, ""), LAMBDA k : AfterName(k))

\* json.decoder.JSONArray from an item on: e is the place the item starts
JSONArray(s, e, items) ==
    LET AfterItem(v, e2, list) ==
            IF At(s, e2) = "]" THEN JOk(PyList(list), e2 + 1)
            ELSE IF At(s, e2) # "," THEN JErr("Expecting ',' delimiter", e2)
            ELSE Bind(SkipWs(s, e2 + 1), LAMBDA next : JSONArray(s, next, list))
    IN  Bind(scan_once(s, e),
             LAMBDA v : IF ~v.ok THEN v
                        ELSE Bind(Append(items, v.val),
                                  LAMBDA list : AfterItem(v, SkipWs(s, v.end), list)))

\* JSONDecodeError's text
JSONDecodeError(msg, pos) ==
    Raise("JSONDecodeError",
          msg \o ": line 1 column " \o IntToStr(pos + 1) \o " (char " \o IntToStr(pos) \o ")")

\* json.loads(event_json)
json_loads(s) ==
    Bind(scan_once(s, SkipWs(s, 0)),
         LAMBDA r :
            IF ~r.ok THEN JSONDecodeError(r.msg, r.end)
            ELSE IF SkipWs(s, r.end) # Len(s)
                 THEN JSONDecodeError("Extra data", SkipWs(s, r.end))
                 ELSE Return(r.val))

---------------------------------------------------------------------------
(* The Python operations the handler applies to the decoded event          *)

\* x.get(key, default)
DictGet(x, key, default) ==
    IF x.t # "dict"
    THEN Raise("AttributeError", "'" \o x.t \o "' object has no attribute 'get'")
    ELSE IF \E i \in DOMAIN x.v : x.v[i][1] = key
         THEN Return(x.v[CHOOSE i \in DOMAIN x.v : x.v[i][1] = key][2])
         ELSE Return(default)

\* x[:n]
GetSlice(x, n) ==
    CASE x.t = "str" -> Return(PyStr(Prefix(x.v, n)))
      [] x.t = "list" -> Return(PyList(SubSeq(x.v, 1, Min(n, Len(x.v)))))
      [] x.t = "dict" -> Raise("TypeError", "unhashable type: 'slice'")
      [] OTHER -> Raise("TypeError", "'" \o x.t \o "' object is not subscriptable")

\* len(x)
PyLen(x) ==
    IF x.t \in {"str", "list", "dict"} THEN Return(PyInt(Len(x.v)))
    ELSE Raise("TypeError", "object of type '" \o x.t \o "' has no len()")

\* s with a backslash before each backslash and each quote character
RECURSIVE Escape(_, _)
Escape(s, quote) ==
    IF Find(s, "\\") = 0 /\ Find(s, quote) = 0 THEN s
    ELSE IF Len(s) = 1 THEN "\\" \o s
    ELSE Escape(SubSeq(s, 1, Len(s) \div 2), quote)
         \o Escape(Suffix(s, Len(s) \div 2 + 1), quote)

\* repr(x)
RECURSIVE repr(_)
RECURSIVE JoinReprs(_, _, _)
RECURSIVE JoinItems(_, _, _)

\* ", ".join(repr(i) for i in items), for the items lo to hi, by halves
JoinReprs(items, lo, hi) ==
    IF lo > hi THEN ""
    ELSE IF lo = hi THEN repr(items[lo])
    ELSE LET mid == (lo + hi) \div 2
         IN  JoinReprs(items, lo, mid) \o ", " \o JoinReprs(items, mid + 1, hi)

\* ", ".join(repr(k) + ": " + repr(v) for k, v in pairs), for the pairs lo to
\* hi, by halves
JoinItems(pairs, lo, hi) ==
    IF lo > hi THEN ""
    ELSE IF lo = hi THEN repr(PyStr(pairs[lo][1])) \o ": " \o repr(pairs[lo][2])
    ELSE LET mid == (lo + hi) \div 2
         IN  JoinItems(pairs, lo, mid) \o ", " \o JoinItems(pairs, mid + 1, hi)

repr(x) ==
    CASE x.t = "str" ->
            LET quote == IF Find(x.v, "'") > 0 /\ Find(x.v, "\"") = 0 THEN "\"" ELSE "'"
            IN  quote \o Escape(x.v, quote) \o quote
      [] x.t = "int" -> IntToStr(x.v)
      [] x.t = "float" -> x.v
      [] x.t = "bool" -> IF x.v THEN "True" ELSE "False"
      [] x.t = "NoneType" -> "None"
      [] x.t = "list" -> "[" \o JoinReprs(x.v, 1, Len(x.v)) \o "]"
      [] OTHER -> "{" \o JoinItems(x.v, 1, Len(x.v)) \o "}"

\* str(x), which an f-string applies to the value it prints
str(x) == IF x.t = "str" THEN x.v ELSE repr(x)

---------------------------------------------------------------------------
(* The static file handler the class inherits from                         *)
(* (http.server.SimpleHTTPRequestHandler), for paths that need no          *)
(* normalising.                                                            *)

\* The directory of the script, which main() makes the working directory
DemoDir == "demo"

\* The directory the program was started from
LaunchDir == "elsewhere"

\* The files of a directory: the demo directory holds the page and the script
FilesIn(dir) == IF dir = DemoDir THEN {"/index.html", "/serve.py"} ELSE {}

\* SimpleHTTPRequestHandler.translate_path: the target without its query and
\* fragment, unquoted
translate_path(path) ==
    LET q == Find(path, "?")
        p1 == IF q = 0 THEN path ELSE SubSeq(path, 1, q - 1)
        h == Find(p1, "#")
        p2 == IF h = 0 THEN p1 ELSE SubSeq(p1, 1, h - 1)
    IN  unquote(p2)

NoResponse == [status |-> 0, file |-> ""]

\* SimpleHTTPRequestHandler.send_head: the file of the path, the index page
\* for the directory itself, 404 for anything else
send_head(path, dir) ==
    LET p == translate_path(path)
        file == IF p = "/" THEN "/index.html" ELSE p
    IN  IF file \in FilesIn(dir) THEN [status |-> 200, file |-> file]
        ELSE [status |-> 404, file |-> ""]

---------------------------------------------------------------------------
(* PubSubDemoHandler.do_GET.  What a call does is a trace of events in      *)
(* order: a line printed (with the source line of its print), the call of  *)
(* the inherited do_GET, the response it writes.                           *)

PreviewLen == 50
AuthorLen == 16
ContentLen == 100

Line(at, text) == [ev |-> "print", at |-> at, text |-> text]
Delegated(path) == [ev |-> "delegate", at |-> 57, text |-> path]
Responded(r) == [ev |-> "respond", at |-> 57, text |-> IntToStr(r.status)]

\* Line 30 with the marker from 50 characters on
EventPreviewFromLimit(event_data) ==
    Prefix(event_data, PreviewLen) \o (IF Len(event_data) >= PreviewLen THEN "..." ELSE "")

\* Line 30: event_data[:50] and the marker of a longer value
EventPreview(event_data) ==
    Prefix(event_data, PreviewLen) \o (IF Len(event_data) > PreviewLen THEN "..." ELSE "")

\* Line 50 with the marker from 100 characters on
ContentPreviewFromLimit(shown, length) ==
    str(shown) \o (IF length >= ContentLen THEN "..." ELSE "")

\* Line 50: content[:100] and the marker of a longer content
ContentPreview(shown, length) == str(shown) \o (IF length > ContentLen THEN "..." ELSE "")

\* Line 49: pubkey[:16] and the marker
AuthorPreview(shown) == str(shown) \o "..."

\* The inherited do_GET called at the top of the method, before the logging
ServedFirst(logged, served) == served \o logged

\* The order of do_GET's statements: the logging, then the inherited do_GET
InOrder(logged, served) == logged \o served

\* '=' * (4 - len(event_data) % 4)
Padding(event_data) == Repeat("=", 4 - (Len(event_data) % 4))

\* The decoding of the try block: the event, or the exception raised
DecodeEvent(padded) ==
    Bind(urlsafe_b64decode(padded),
         LAMBDA decoded_bytes :
            IF ~decoded_bytes.ok THEN decoded_bytes
            ELSE Bind(decode_utf8(decoded_bytes.val),
                      LAMBDA event_json :
                         IF ~event_json.ok THEN event_json
                         ELSE json_loads(event_json.val)))

\* The prints of the try block after the decoding: the lines printed, and the
\* exception that cut them short (exc.ok when none did)
DisplayEvent(event) ==
    LET kind == DictGet(event, "kind", PyStr("unknown"))
        pubkey == DictGet(event, "pubkey", PyStr("unknown"))
        author == GetSlice(pubkey.val, AuthorLen)
        content == DictGet(event, "content", PyStr(""))
        shown == GetSlice(content.val, ContentLen)
        length == PyLen(content.val)
        created == DictGet(event, "created_at", PyStr("unknown"))
        l47 == Line(47, "Event decoded successfully:")
        l48 == Line(48, "   Kind: " \o str(kind.val))
        l49 == Line(49, "   Author: " \o AuthorPreview(author.val))
        l50 == Line(50, "   Content: " \o ContentPreview(shown.val, length.val.v))
        l51 == Line(51, "   Created: " \o str(created.val))
    IN  IF ~kind.ok THEN [out |-> <<l47>>, exc |-> kind]
        ELSE IF ~pubkey.ok THEN [out |-> <<l47, l48>>, exc |-> pubkey]
        ELSE IF ~author.ok THEN [out |-> <<l47, l48>>, exc |-> author]
        ELSE IF ~content.ok THEN [out |-> <<l47, l48, l49>>, exc |-> content]
        ELSE IF ~shown.ok THEN [out |-> <<l47, l48, l49>>, exc |-> shown]
        ELSE IF ~length.ok THEN [out |-> <<l47, l48, l49>>, exc |-> length]
        ELSE IF ~created.ok THEN [out |-> <<l47, l48, l49, l50>>, exc |-> created]
        ELSE [out |-> <<l47, l48, l49, l50, l51>>, exc |-> Return(PyNone)]

\* The try block, lines 37 to 51
TryBlock(event_data) ==
    LET Decoded(padded, event) ==
            IF ~event.ok
            THEN [out |-> <<>>, exc |-> event, padded |-> padded, event |-> Unset]
            ELSE Bind(DisplayEvent(event.val),
                      LAMBDA d : [out |-> d.out, exc |-> d.exc, padded |-> padded,
                                  event |-> event.val])
    IN  Bind(event_data \o Padding(event_data),
             LAMBDA padded : Bind(DecodeEvent(padded), LAMBDA event : Decoded(padded, event)))

\* A narrower clause, "except json.JSONDecodeError", which lets the other
\* decode failures leave the handler
CaughtJSONOnly(exc) == exc = "JSONDecodeError"

\* The exceptions "except Exception" catches: every one the try block can
\* raise is an Exception; a KeyboardInterrupt is not
Caught(exc) ==
    exc \in {"binascii.Error", "UnicodeDecodeError", "JSONDecodeError", "ValueError",
             "AttributeError", "TypeError", "KeyError", "RecursionError"}

\* try ... except Exception as e: the block's lines, then the failure notice
\* of a caught exception; raised names the exception that gets out
TryExcept(event_data) ==
    Bind(TryBlock(event_data),
         LAMBDA t :
            IF t.exc.ok
            THEN [out |-> t.out, raised |-> "", padded |-> t.padded, event |-> t.event]
            ELSE IF Caught(t.exc.exc)
                 THEN [out |-> Append(t.out, Line(54, "Error decoding event: " \o t.exc.msg)),
                       raised |-> "", padded |-> t.padded, event |-> t.event]
                 ELSE [out |-> t.out, raised |-> t.exc.exc, padded |-> t.padded,
                       event |-> t.event])

\* The handler's local variables when it ends
NoLocals == [event_id |-> Unset, event_data |-> Unset, padded |-> Unset, event |-> Unset]

\* The block under "if 'id' in query_params", lines 25 to 54
EventBlock(query_params) ==
    LET event_id == query_params["id"][1]
        event_data == IF "event" \in DOMAIN query_params
                      THEN PyStr(query_params["event"][1]) ELSE PyNone
        l28 == Line(28, "Event ID: " \o event_id)
        l30 == Line(30, "Event Data: " \o EventPreview(event_data.v))
        l31 == Line(31, "Event Data Size: " \o IntToStr(Len(event_data.v)) \o " characters")
        l33 == Line(33, "Event data not included (likely > 500KB)")
    IN  IF Truthy(event_data)
        THEN Bind(TryExcept(event_data.v),
                  LAMBDA t :
                     [out |-> <<l28, l30, l31>> \o t.out, raised |-> t.raised,
                      locals |-> [event_id |-> PyStr(event_id), event_data |-> event_data,
                                  padded |-> PyStr(t.padded), event |-> t.event]])
        ELSE [out |-> <<l28, l33>>, raised |-> "",
              locals |-> [event_id |-> PyStr(event_id), event_data |-> event_data,
                          padded |-> Unset, event |-> Unset]]

\* Line 57 one level deeper, as the else branch of "if 'id' in
\* query_params": a request that carries an id is logged and not served
super_do_GET_without_id(path, dir) ==
    IF "id" \in DOMAIN parse_qs(urlparse(path).query)
    THEN [trace |-> <<>>, response |-> NoResponse]
    ELSE Bind(send_head(path, dir),
              LAMBDA r : [trace |-> <<Delegated(path), Responded(r)>>, response |-> r])

\* super().do_GET(), line 57: the inherited handler is given the same target
\* and writes the response
super_do_GET(path, dir) ==
    Bind(send_head(path, dir),
         LAMBDA r : [trace |-> <<Delegated(path), Responded(r)>>, response |-> r])

\* do_GET for the target self.path, with the process in directory dir
do_GET(path, dir) ==
    LET l21 == Line(21, "\nRequest: " \o path)
        Logged(b) ==
            IF b.raised # ""
            THEN [path |-> path, trace |-> <<l21>> \o b.out, outcome |-> "raised",
                  response |-> NoResponse, locals |-> b.locals]
            ELSE Bind(super_do_GET(path, dir),
                      LAMBDA f : [path |-> path, trace |-> InOrder(<<l21>> \o b.out, f.trace),
                                  outcome |-> "returned", response |-> f.response,
                                  locals |-> b.locals])
    IN  Bind(urlparse(path),
             LAMBDA parsed_url :
                Bind(parse_qs(parsed_url.query),
                     LAMBDA query_params :
                        Bind(IF "id" \in DOMAIN query_params THEN EventBlock(query_params)
                             ELSE [out |-> <<>>, raised |-> "", locals |-> NoLocals],
                             LAMBDA b : Logged(b))))

---------------------------------------------------------------------------
(* The requests.  The client that produces an event sends it as the        *)
(* base64url text of its JSON, without pads, in the query string.          *)

B64UrlAlphabet == "ABCDEFGHIJKLMNOPQRSTUVWXYZabcdefghijklmnopqrstuvwxyz0123456789-_"

UrlChar(v) == CharAt(B64UrlAlphabet, v + 1)

\* The characters of one group of one, two or three bytes
EncodeGroup(bytes, lo, hi) ==
    LET b1 == bytes[lo]
        b2 == IF lo + 1 <= hi THEN bytes[lo + 1] ELSE 0
        b3 == IF lo + 2 <= hi THEN bytes[lo + 2] ELSE 0
    IN  UrlChar(b1 \div 4) \o UrlChar((b1 % 4) * 16 + b2 \div 16)
        \o (IF lo + 1 <= hi THEN UrlChar((b2 % 16) * 4 + b3 \div 64) ELSE "")
        \o (IF lo + 2 <= hi THEN UrlChar(b3 % 64) ELSE "")

RECURSIVE EncodeRange(_, _, _)
EncodeRange(bytes, lo, hi) ==
    IF lo > hi THEN ""
    ELSE IF hi - lo < 3 THEN EncodeGroup(bytes, lo, hi)
    ELSE LET half == (((hi - lo + 3) \div 3) \div 2) * 3
         IN  EncodeRange(bytes, lo, lo + half - 1) \o EncodeRange(bytes, lo + half, hi)

\* The event parameter a client sends for a JSON text
Encoded(text) == EncodeRange([i \in 1..Len(text) |-> Ord(CharAt(text, i))], 1, Len(text))

\* The spec's sample event
SampleEvent ==
    "{\"kind\":1,\"pubkey\":\"abcd1234abcd1234extra\",\"content\":\"hello\",\"created_at\":1700000000}"

\* An event whose content is n characters long
ContentEvent(n) == "{\"kind\":1,\"content\":\"" \o Repeat("x", n) \o "\"}"

\* How far past the lengths the handler cuts at the inputs go
MaxOver == 1

\* The event parameters tried: events that decode, with fields present,
\* absent and of other types; JSON that is no object; text that is no JSON,
\* no UTF-8, no base64; and values of the lengths around PreviewLen
EventValues ==
    {Encoded(SampleEvent), Encoded("{}"), Encoded("123"), Encoded("[1,2]"),
     Encoded("{\"pubkey\":5}"), Encoded("{\"pubkey\":\"abc\",\"content\":7}"),
     Encoded("{"), "_w", "e", "e30!!",
     Repeat("A", PreviewLen)}
    \cup {Encoded(ContentEvent(n)) : n \in (ContentLen - 1)..(ContentLen + MaxOver)}
    \cup {Repeat("A", n) : n \in (PreviewLen + 1)..(PreviewLen + MaxOver)}

\* The query strings tried
Queries ==
    {"", "?id=evt1", "?id=", "?id=evt1&event=", "?id=&event=e30", "?event=e30",
     "?id=evt1&id=evt2&event=&event=e30", "?id=evt1#event=e30"}
    \cup {"?id=evt1&event=" \o e : e \in EventValues}

\* The request targets tried: a file of the demo directory, a path that is
\* none, the directory itself
Requests ==
    {p \o q : p \in {"/index.html", "/missing.html"}, q \in Queries}
    \cup {"/", "/?id=evt1", "/index.html#id=evt1&event=e30", "/index.html;v=1?id=evt1"}

\* What do_GET does for each request, served from the demo directory and
\* from the directory of the launch
DemoHandlings == {do_GET(path, DemoDir) : path \in Requests}
LaunchHandlings == {do_GET(path, LaunchDir) : path \in Requests}

HandlingsIn(dir) == IF dir = DemoDir THEN DemoHandlings ELSE LaunchHandlings

---------------------------------------------------------------------------
(* main() and the serve loop (socketserver.TCPServer.serve_forever)         *)

PORT == 8000

\* The most requests a run dispatches
MaxRequests == 3

NoRequest ==
    [path |-> "", trace |-> <<>>, outcome |-> "none", response |-> NoResponse,
     locals |-> NoLocals]

\* Lines 70 to 74
Banner ==
    <<"Starting PubSub Demo PWA Server", "Serving from: " \o DemoDir,
      "URL: http://localhost:" \o IntToStr(PORT),
      "Use this URL as your target URI in the PWA", Repeat("=", 50)>>

\* Line 80
ShutdownNotice == "\n\nServer stopped"

Init ==
    /\ phase = "init"
    /\ cwd = LaunchDir
    /\ console = <<>>
    /\ exitStatus = <<>>
    /\ handled = 0
    /\ signals = 0
    /\ cur = NoRequest
    /\ prev = NoRequest

\* Lines 64 to 78: the directory is changed, the banner printed, the port
\* bound, and serve_forever entered
Start ==
    /\ phase = "init"
    /\ cwd' = DemoDir
    /\ console' = Banner
    /\ phase' = "serving"
    /\ UNCHANGED <<exitStatus, handled, signals, cur, prev>>

\* Line 76 with the port taken: TCPServer raises OSError, which nothing
\* catches
BindFails ==
    /\ phase = "init"
    /\ cwd' = DemoDir
    /\ console' = Banner
    /\ phase' = "failed"
    /\ exitStatus' = <<1>>
    /\ UNCHANGED <<handled, signals, cur, prev>>

\* A handler class that keeps the last event id in a class attribute and
\* prints it for a request that brings none
HandleRequestWithMemory ==
    /\ phase = "serving"
    /\ handled < MaxRequests
    /\ \E h \in HandlingsIn(cwd) :
          /\ cur' = IF h.locals.event_id.t = "unset" /\ cur.locals.event_id.t = "str"
                    THEN [h EXCEPT !.trace =
                             <<h.trace[1], Line(28, "Event ID: " \o cur.locals.event_id.v)>>
                             \o SubSeq(h.trace, 2, Len(h.trace))]
                    ELSE h
          /\ prev' = cur
    /\ handled' = handled + 1
    /\ UNCHANGED <<phase, cwd, console, exitStatus, signals>>

\* serve_forever accepts a request and a new handler object handles it to
\* the end.  An exception that leaves do_GET is reported by the server's
\* handle_error, and the loop goes on.
HandleRequest ==
    /\ phase = "serving"
    /\ handled < MaxRequests
    /\ \E h \in HandlingsIn(cwd) :
          /\ cur' = h
          /\ prev' = cur
    /\ handled' = handled + 1
    /\ UNCHANGED <<phase, cwd, console, exitStatus, signals>>

\* Line 81 as sys.exit(1): the interrupt ends the process as a failure
ShutdownAsFailure ==
    /\ signals' = signals + 1
    /\ console' = Append(console, ShutdownNotice)
    /\ phase' = "stopped"
    /\ exitStatus' = <<1>>
    /\ UNCHANGED cwd

\* Lines 79 to 81: the signal raises KeyboardInterrupt, which leaves
\* serve_forever
Shutdown ==
    /\ signals' = signals + 1
    /\ console' = Append(console, ShutdownNotice)
    /\ phase' = "stopped"
    /\ exitStatus' = <<0>>
    /\ UNCHANGED cwd

\* The interrupt arrives while the loop waits for a request
Interrupt ==
    /\ phase = "serving"
    /\ Shutdown
    /\ UNCHANGED <<handled, cur, prev>>

\* The interrupt arrives while a handler runs: KeyboardInterrupt is no
\* Exception, so it cuts do_GET after k of its events and leaves the loop
InterruptHandler ==
    /\ phase = "serving"
    /\ handled < MaxRequests
    /\ \E h \in HandlingsIn(cwd) :
          \E k \in 0..(Len(h.trace) - 1) :
             /\ cur' = [h EXCEPT !.trace = SubSeq(h.trace, 1, k),
                                 !.outcome = "interrupted",
                                 !.response = NoResponse,
                                 !.locals = NoLocals]
             /\ prev' = cur
    /\ handled' = handled + 1
    /\ Shutdown

Next == Start \/ BindFails \/ HandleRequest \/ Interrupt \/ InterruptHandler

Spec == Init /\ [][Next]_vars

---------------------------------------------------------------------------
(* What the handlings show.                                                *)

\* do_GET ran to its end, by returning or by an exception of its own
Ran(h) == h.outcome \in {"returned", "raised"}

\* The texts do_GET printed at source line n, in order
PrintedAt(h, n) ==
    LET hits == SelectSeq(h.trace, LAMBDA e : e.ev = "print" /\ e.at = n)
    IN  [i \in 1..Len(hits) |-> hits[i].text]

\* The positions of the trace at which the inherited do_GET was called
Delegations(h) == {i \in 1..Len(h.trace) : h.trace[i].ev = "delegate"}

\* The static outcome the working directory fixes for a target
StaticOutcome(h) ==
    /\ Cardinality(Delegations(h)) = 1
    /\ h.response.status \in {200, 404}
    /\ h.response.status = 200 <=> h.response.file \in FilesIn(cwd)

\* Line 42 was reached, so the decoding was attempted
DecodeAttempted(h) == h.locals.padded.t = "str"

\* One of lines 43 to 45 raised: event was never assigned
DecodeFailed(h) == DecodeAttempted(h) /\ h.locals.event.t = "unset"

\* C1: when base64url decoding, UTF-8 decoding or JSON parsing of the event
\* fails, the handler prints one failure notice that carries the error's
\* description, no exception leaves do_GET, and the static file is served as
\* for any other request.
C1_DecodeFailureIsNoticedAndServed ==
    (Ran(cur) /\ DecodeFailed(cur)) =>
        /\ cur.outcome = "returned"
        /\ PrintedAt(cur, 54) =
              <<"Error decoding event: " \o DecodeEvent(cur.locals.padded.v).msg>>
        /\ PrintedAt(cur, 47) = <<>>
        /\ StaticOutcome(cur)
        /\ cur.response = send_head(cur.path, cwd)

\* Two requests in a row whose decoding failed, the first at the base64
\* step and the second in the JSON parser, the second for a file that exists
C1_Witness ==
    /\ Ran(prev) /\ DecodeFailed(prev)
    /\ Ran(cur) /\ DecodeFailed(cur)
    /\ ~DecodeEvent(prev.locals.padded.v).ok
    /\ DecodeEvent(prev.locals.padded.v).exc = "binascii.Error"
    /\ DecodeEvent(cur.locals.padded.v).exc = "JSONDecodeError"
    /\ Len(PrintedAt(cur, 54)) = 1
    /\ cur.response.status = 200

\* The path component of a request target: what comes before its query and
\* its fragment
PathComponent(target) ==
    LET u == urlparse(target)
    IN  u.path \o (IF u.params = "" THEN "" ELSE ";" \o u.params)

\* C2: the static outcome of a request is fixed by its path component: every
\* request is handed to the inherited handler once and answered with the file
\* or with 404, and two requests with the same path component get the same
\* answer whatever their id and event parameters are.
C2_StaticOutcomeByPathAlone ==
    /\ Ran(cur) => (StaticOutcome(cur) /\ cur.outcome = "returned")
    /\ (Ran(cur) /\ Ran(prev) /\ PathComponent(cur.path) = PathComponent(prev.path))
          => cur.response = prev.response

\* The same file asked for with no query and then with an event that does
\* not decode, and found both times
C2_Witness ==
    /\ Ran(prev) /\ Ran(cur)
    /\ prev.path = "/index.html"
    /\ PathComponent(cur.path) = "/index.html"
    /\ DecodeFailed(cur)
    /\ prev.response = [status |-> 200, file |-> "/index.html"]
    /\ cur.response = prev.response

\* The value of a key of a decoded JSON object
HasKey(event, key) == event.t = "dict" /\ \E i \in DOMAIN event.v : event.v[i][1] = key
ValueOf(event, key) == event.v[CHOOSE i \in DOMAIN event.v : event.v[i][1] = key][2]

\* C3: the padding appended before decoding is (4 - L mod 4) mod 4 "="
\* characters, L being the length of the event parameter, so the padded
\* string is the shortest one of a length divisible by 4.
C3_PaddingIsMinimal ==
    (Ran(cur) /\ DecodeAttempted(cur)) =>
        LET L == Len(cur.locals.event_data.v)
        IN  cur.locals.padded.v
               = cur.locals.event_data.v \o Repeat("=", (4 - (L % 4)) % 4)

\* C4: for a decoded event the Author line shows the first 16 characters of
\* pubkey followed by the ellipsis marker; without a pubkey it shows the word
\* unknown with no marker after it, and no failure notice is printed.
C4_AuthorLine ==
    (Ran(cur) /\ cur.locals.event.t = "dict") =>
        /\ (HasKey(cur.locals.event, "pubkey")
              /\ ValueOf(cur.locals.event, "pubkey").t = "str")
              => PrintedAt(cur, 49) =
                    <<"   Author: "
                      \o Prefix(ValueOf(cur.locals.event, "pubkey").v, 16) \o "...">>
        /\ ~HasKey(cur.locals.event, "pubkey")
              => /\ PrintedAt(cur, 49) = <<"   Author: unknown">>
                 /\ PrintedAt(cur, 54) = <<>>

\* The content of a decoded event as far as it is a string, "" without one
ContentOf(event) ==
    IF HasKey(event, "content") THEN ValueOf(event, "content").v ELSE ""

\* The event displays to its end: it is an object whose pubkey and content
\* are strings or absent
Displayable(event) ==
    /\ event.t = "dict"
    /\ HasKey(event, "pubkey") => ValueOf(event, "pubkey").t = "str"
    /\ HasKey(event, "content") => ValueOf(event, "content").t = "str"

\* C5: for a decoded event the Content line shows the first 100 characters
\* of content and the ellipsis marker when content is longer than 100, and
\* the content as it is, with no marker, when it has at most 100 characters
\* ("" when the event has none); the event keeps its whole content.
C5_ContentPreview ==
    (Ran(cur) /\ Displayable(cur.locals.event)) =>
        LET content == ContentOf(cur.locals.event)
        IN  /\ PrintedAt(cur, 50) =
                  <<"   Content: "
                    \o (IF Len(content) > 100 THEN SubSeq(content, 1, 100) \o "..."
                        ELSE content)>>
            /\ Len(content) > 100 =>
                  cur.locals.event = DecodeEvent(cur.locals.padded.v).val

\* A content of exactly 100 characters shown whole, then one of 101 cut to
\* 100 with the marker while the event still holds all 101
C5_Witness ==
    /\ Ran(prev) /\ Displayable(prev.locals.event)
    /\ Ran(cur) /\ Displayable(cur.locals.event)
    /\ Len(ContentOf(prev.locals.event)) = 100
    /\ PrintedAt(prev, 50) = <<"   Content: " \o ContentOf(prev.locals.event)>>
    /\ Len(ContentOf(cur.locals.event)) = 101
    /\ PrintedAt(cur, 50) =
          <<"   Content: " \o SubSeq(ContentOf(cur.locals.event), 1, 100) \o "...">>

\* C6: once started the server goes on accepting requests and leaves the
\* serve loop only when an interrupt arrives; the interrupt ends the loop,
\* appends the shutdown notice to the console and exits with status 0, and
\* nothing happens after that: no request is handled after the notice.
C6_StopsOnlyOnInterrupt ==
    /\ [](phase = "serving" =>
             /\ signals = 0
             /\ exitStatus = <<>>
             /\ handled < MaxRequests => ENABLED HandleRequest)
    /\ [](phase = "stopped" =>
             /\ signals = 1
             /\ exitStatus = <<0>>
             /\ console[Len(console)] = ShutdownNotice)
    /\ [][(phase = "serving" /\ signals' = signals) => phase' = "serving"]_vars
    /\ [][(phase = "serving" /\ signals' # signals) =>
             /\ phase' = "stopped"
             /\ console' = Append(console, ShutdownNotice)
             /\ exitStatus' = <<0>>]_vars
    /\ [][phase = "stopped" => UNCHANGED vars]_vars

\* The server stopped by an interrupt that arrived while it handled its
\* second request
C6_Witness ==
    /\ phase = "stopped"
    /\ handled = 2
    /\ Ran(prev)
    /\ cur.outcome = "interrupted"
    /\ console[Len(console)] = ShutdownNotice
    /\ exitStatus = <<0>>

C8_StepsInOrder ==
    Ran(cur) =>
        LET t == cur.trace
            n == Len(t)
        IN  /\ n >= 3
            /\ t[1] = Line(21, "\nRequest: " \o cur.path)
            /\ \A i \in 1..(n - 2) : t[i].ev = "print"
            /\ \A i, j \in 1..(n - 2) : i < j => t[i].at < t[j].at
            /\ t[n - 1] = Delegated(cur.path)
            /\ t[n].ev = "respond"
            /\ Delegations(cur) = {n - 1}

\* A request whose event decodes and displays: nine printed lines, then the
\* delegation, then the response
C8_Witness ==
    /\ Ran(cur)
    /\ Len(cur.trace) = 11
    /\ Len(PrintedAt(cur, 28)) = 1
    /\ Len(PrintedAt(cur, 31)) = 1
    /\ Len(PrintedAt(cur, 51)) = 1
    /\ cur.trace[10].ev = "delegate"
    /\ cur.trace[11].ev = "respond"

\* Everything do_GET printed
Printed(h) == SelectSeq(h.trace, LAMBDA e : e.ev = "print")

\* C9: the event handling depends on id.  With id and a non-empty event in
\* the query mapping, the event is previewed (its first 50 characters, the
\* ellipsis marker exactly when it has more than 50, and its length) and a
\* decode is attempted; with id and no event the advisory note is printed and
\* no decode attempted; without id only the request target is printed, even
\* when the query has an event.
C9_EventHandlingNeedsId ==
    Ran(cur) =>
        LET q == parse_qs(urlparse(cur.path).query)
            hasId == "id" \in DOMAIN q
            e == IF "event" \in DOMAIN q THEN q["event"][1] ELSE ""
        IN  /\ (hasId /\ e # "") =>
                  /\ PrintedAt(cur, 28) = <<"Event ID: " \o q["id"][1]>>
                  /\ PrintedAt(cur, 30) =
                        <<"Event Data: " \o (IF Len(e) > 50 THEN SubSeq(e, 1, 50) \o "..."
                                             ELSE e)>>
                  /\ PrintedAt(cur, 31) =
                        <<"Event Data Size: " \o NatToStr(Len(e)) \o " characters">>
                  /\ PrintedAt(cur, 33) = <<>>
                  /\ DecodeAttempted(cur)
                  /\ PrintedAt(cur, 47) # <<>> \/ PrintedAt(cur, 54) # <<>>
            /\ (hasId /\ e = "") =>
                  /\ Len(Printed(cur)) = 3
                  /\ PrintedAt(cur, 28) = <<"Event ID: " \o q["id"][1]>>
                  /\ Len(PrintedAt(cur, 33)) = 1
                  /\ ~DecodeAttempted(cur)
            /\ ~hasId =>
                  /\ Printed(cur) = <<Line(21, "\nRequest: " \o cur.path)>>
                  /\ ~DecodeAttempted(cur)

\* An event of exactly 50 characters previewed whole, then a request with an
\* event and no id that prints its target only
C9_Witness ==
    /\ Ran(prev) /\ Ran(cur)
    /\ DecodeAttempted(prev)
    /\ Len(prev.locals.event_data.v) = 50
    /\ PrintedAt(prev, 30) = <<"Event Data: " \o prev.locals.event_data.v>>
    /\ cur.path = "/index.html?event=e30"
    /\ Len(Printed(cur)) = 1

\* C10: a decode that is attempted ends in one of two ways and never in
\* both: the success banner with the four field lines and no failure notice,
\* or the failure notice and no success banner.
C10_ExactlyOneOutcome ==
    (Ran(cur) /\ DecodeAttempted(cur)) =>
        \/ /\ Len(PrintedAt(cur, 47)) = 1
           /\ \A n \in 48..51 : Len(PrintedAt(cur, n)) = 1
           /\ PrintedAt(cur, 54) = <<>>
        \/ /\ Len(PrintedAt(cur, 54)) = 1
           /\ PrintedAt(cur, 47) = <<>>

====
